---- MODULE Spec2Model ----
(***************************************************************************)
(* bundly-agent-sdk: the pump.fun graduation estimator                     *)
(* (calculateMinTokensForGraduation), the finalize instruction builder     *)
(* that consumes it and BundlyAgent.finalize, which submits the result.    *)
(*                                                                         *)
(* The estimator computes in bn.js arbitrary-precision integers.  Its      *)
(* values (k is about 3.2 * 10^25) do not fit the integers of the model    *)
(* checker, so a BN is modelled as a sign and a magnitude, the magnitude a *)
(* little-endian sequence of limbs in radix Base without leading zero      *)
(* limbs.  The arithmetic below is exact integer arithmetic.               *)
(***************************************************************************)
EXTENDS Integers, Sequences, FiniteSets, TLC

Base == 10000

\* ------------------------------------------------------------------------
\* Magnitudes
\* ------------------------------------------------------------------------
limb(m, i) == IF i <= Len(m) THEN m[i] ELSE 0

RECURSIVE strip(_)
strip(m) ==
  IF m = <<>> THEN <<>>
  ELSE IF m[Len(m)] = 0 THEN strip(SubSeq(m, 1, Len(m) - 1))
  ELSE m

\* -1, 0, 1 as a is below, equal to, above b; i runs from the top limb down
RECURSIVE magCmpFrom(_, _, _)
magCmpFrom(a, b, i) ==
  IF i = 0 THEN 0
  ELSE IF a[i] < b[i] THEN -1
  ELSE IF a[i] > b[i] THEN 1
  ELSE magCmpFrom(a, b, i - 1)

magCmp(a, b) ==
  IF Len(a) < Len(b) THEN -1
  ELSE IF Len(a) > Len(b) THEN 1
  ELSE magCmpFrom(a, b, Len(a))

RECURSIVE magAddFrom(_, _, _, _)
magAddFrom(a, b, i, carry) ==
  IF i > Len(a) /\ i > Len(b)
  THEN (IF carry = 0 THEN <<>> ELSE <<carry>>)
  ELSE LET s == limb(a, i) + limb(b, i) + carry
       IN  <<s % Base>> \o magAddFrom(a, b, i + 1, s \div Base)

magAdd(a, b) == magAddFrom(a, b, 1, 0)

\* a - b for a >= b
RECURSIVE magSubFrom(_, _, _, _)
magSubFrom(a, b, i, borrow) ==
  IF i > Len(a) THEN <<>>
  ELSE LET d == a[i] - limb(b, i) - borrow
       IN  IF d < 0
           THEN <<d + Base>> \o magSubFrom(a, b, i + 1, 1)
           ELSE <<d>> \o magSubFrom(a, b, i + 1, 0)

magSub(a, b) == strip(magSubFrom(a, b, 1, 0))

\* a * d for a single limb d
RECURSIVE magMulLimbFrom(_, _, _, _)
magMulLimbFrom(a, d, i, carry) ==
  IF i > Len(a)
  THEN (IF carry = 0 THEN <<>> ELSE <<carry>>)
  ELSE LET p == a[i] * d + carry
       IN  <<p % Base>> \o magMulLimbFrom(a, d, i + 1, p \div Base)

magMulLimb(a, d) == strip(magMulLimbFrom(a, d, 1, 0))

\* a * Base
magShift(a) == IF a = <<>> THEN <<>> ELSE <<0>> \o a

\* a * b, by the limbs of b from the lowest one up
RECURSIVE magMul(_, _)
magMul(a, b) ==
  IF b = <<>> \/ a = <<>> THEN <<>>
  ELSE magAdd(magMulLimb(a, b[1]), magShift(magMul(a, SubSeq(b, 2, Len(b)))))

\* the largest q in lo..hi with b * q <= r (b * lo <= r is given)
RECURSIVE quotLimb(_, _, _, _)
quotLimb(r, b, lo, hi) ==
  IF lo = hi THEN lo
  ELSE LET mid == (lo + hi + 1) \div 2
       IN  IF magCmp(magMulLimb(b, mid), r) <= 0
           THEN quotLimb(r, b, mid, hi)
           ELSE quotLimb(r, b, lo, mid - 1)

\* long division of a by b # 0, limbs of a from the top one down:
\* <<quotient, remainder>>
RECURSIVE magDivModFrom(_, _, _)
magDivModFrom(a, b, i) ==
  IF i > Len(a) THEN <<(<<>>), (<<>>)>>
  ELSE LET up == magDivModFrom(a, b, i + 1)
           r  == strip(<<a[i]>> \o up[2])
           q  == quotLimb(r, b, 0, Base - 1)
       IN  <<(<<q>> \o up[1]), magSub(r, magMulLimb(b, q))>>

magDiv(a, b) == strip(magDivModFrom(a, b, 1)[1])

\* ------------------------------------------------------------------------
\* BN: the bn.js integers the estimator computes in
\* ------------------------------------------------------------------------
mkBN(neg, mag) == [neg |-> neg /\ mag # <<>>, mag |-> mag]

RECURSIVE reverse(_)
reverse(s) == IF s = <<>> THEN <<>> ELSE reverse(Tail(s)) \o <<Head(s)>>

\* new BN('...'): the decimal string in groups of four digits, first group
\* first; BN(<<1450, 0>>) is new BN('14500000')
BN(groups) == mkBN(FALSE, strip(reverse(groups)))

isZero(a) == a.mag = <<>>

\* -1, 0, 1 as a is below, equal to, above b
cmp(a, b) ==
  IF a.neg /\ ~b.neg THEN -1
  ELSE IF ~a.neg /\ b.neg THEN 1
  ELSE IF a.neg THEN magCmp(b.mag, a.mag)
  ELSE magCmp(a.mag, b.mag)

lt(a, b)  == cmp(a, b) < 0
lte(a, b) == cmp(a, b) <= 0
gt(a, b)  == cmp(a, b) > 0
gte(a, b) == cmp(a, b) >= 0

bnNeg(a) == mkBN(~a.neg, a.mag)

add(a, b) ==
  IF a.neg = b.neg THEN mkBN(a.neg, magAdd(a.mag, b.mag))
  ELSE IF magCmp(a.mag, b.mag) >= 0 THEN mkBN(a.neg, magSub(a.mag, b.mag))
  ELSE mkBN(b.neg, magSub(b.mag, a.mag))

sub(a, b) == add(a, bnNeg(b))

\* the product kept to 64 bits: its remainder by 2^64
mulWrapped64(a, b) ==
  mkBN(a.neg # b.neg,
       magDivModFrom(magMul(a.mag, b.mag),
                     <<1616, 955, 737, 6744, 1844>>, 1)[2])

mul(a, b) == mkBN(a.neg # b.neg, magMul(a.mag, b.mag))

\* truncated toward zero; the divisor is not zero
div(a, b) == mkBN(a.neg # b.neg, magDiv(a.mag, b.mag))

\* ------------------------------------------------------------------------
\* calculateMinTokensForGraduation
\* ------------------------------------------------------------------------
VIRTUAL_SOL_RESERVES        == BN(<<300, 0, 0>>)
VIRTUAL_TOKEN_RESERVES      == BN(<<1073, 0, 0, 0>>)
INITIAL_REAL_TOKEN_RESERVES == BN(<<793, 1000, 0, 0>>)
ESTIMATED_COSTS             == BN(<<1450, 0>>)
\* a graduation threshold of 86 SOL
graduationThresholdRaised   == BN(<<860, 0, 0>>)
GRADUATION_THRESHOLD        == BN(<<850, 0, 0>>)

k == mul(VIRTUAL_SOL_RESERVES, VIRTUAL_TOKEN_RESERVES)

\* the fixed costs taken as the 14M lamports of the comment's sum
spendableRoundCosts(escrowBalanceBN) == sub(escrowBalanceBN, BN(<<1400, 0>>))

\* const SOL_TO_SPEND = escrowBalanceBN.sub(ESTIMATED_COSTS)
spendable(escrowBalanceBN) == sub(escrowBalanceBN, ESTIMATED_COSTS)

\* the spend taken out of the reserves
finalSolSubtracted(SOL_TO_SPEND) == sub(VIRTUAL_SOL_RESERVES, SOL_TO_SPEND)

\* const finalSol = VIRTUAL_SOL_RESERVES.add(SOL_TO_SPEND)
finalSolOf(SOL_TO_SPEND) == add(VIRTUAL_SOL_RESERVES, SOL_TO_SPEND)

\* the quotient rounded up
finalTokensRoundedUp(finalSol) == add(div(k, finalSol), BN(<<1>>))

\* const finalTokens = k.div(finalSol)
finalTokensOf(finalSol) == div(k, finalSol)

\* const tokensOut = initialTokens.sub(finalTokens)
tokensOutOf(finalTokens) == sub(VIRTUAL_TOKEN_RESERVES, finalTokens)

\* the two factors of the margin exchanged
slippageInverted(tokensOut) == div(mul(tokensOut, BN(<<100>>)), BN(<<90>>))

\* tokensOut.mul(new BN(90)).div(new BN(100))
slippage(tokensOut) == div(mul(tokensOut, BN(<<90>>)), BN(<<100>>))

\* the tokens_out <= 0 check left out
sanityCheckedNoFloor(tokensOut, minTokensOut) ==
  IF gt(tokensOut, INITIAL_REAL_TOKEN_RESERVES)
  THEN <<div(mul(INITIAL_REAL_TOKEN_RESERVES, BN(<<90>>)), BN(<<100>>)), FALSE, TRUE>>
  ELSE <<minTokensOut, FALSE, FALSE>>

\* the tokens_out <= 0 check warning without returning
sanityCheckedWarnOnly(tokensOut, minTokensOut) ==
  IF lte(tokensOut, BN(<<0>>))
  THEN <<minTokensOut, TRUE, FALSE>>
  ELSE IF gt(tokensOut, INITIAL_REAL_TOKEN_RESERVES)
  THEN <<div(mul(INITIAL_REAL_TOKEN_RESERVES, BN(<<90>>)), BN(<<100>>)), FALSE, TRUE>>
  ELSE <<minTokensOut, FALSE, FALSE>>

\* the reserve-ceiling check left out
sanityCheckedNoCap(tokensOut, minTokensOut) ==
  IF lte(tokensOut, BN(<<0>>))
  THEN <<BN(<<0>>), TRUE, FALSE>>
  ELSE <<minTokensOut, FALSE, gt(tokensOut, INITIAL_REAL_TOKEN_RESERVES)>>

\* the cap applied from the reserves on, not above them
sanityCheckedCapFromReserves(tokensOut, minTokensOut) ==
  IF lte(tokensOut, BN(<<0>>))
  THEN <<BN(<<0>>), TRUE, FALSE>>
  ELSE IF gte(tokensOut, BN(<<793, 0, 0, 0>>))
  THEN <<div(mul(INITIAL_REAL_TOKEN_RESERVES, BN(<<90>>)), BN(<<100>>)), FALSE, TRUE>>
  ELSE <<minTokensOut, FALSE, FALSE>>

\* the cap returned without the 90% margin
sanityCheckedCapAtReserves(tokensOut, minTokensOut) ==
  IF lte(tokensOut, BN(<<0>>))
  THEN <<BN(<<0>>), TRUE, FALSE>>
  ELSE IF gt(tokensOut, INITIAL_REAL_TOKEN_RESERVES)
  THEN <<INITIAL_REAL_TOKEN_RESERVES, FALSE, TRUE>>
  ELSE <<minTokensOut, FALSE, FALSE>>

\* the cap with the 90% margin taken twice
sanityCheckedCapMarginTwice(tokensOut, minTokensOut) ==
  IF lte(tokensOut, BN(<<0>>))
  THEN <<BN(<<0>>), TRUE, FALSE>>
  ELSE IF gt(tokensOut, INITIAL_REAL_TOKEN_RESERVES)
  THEN <<div(mul(div(mul(INITIAL_REAL_TOKEN_RESERVES, BN(<<90>>)), BN(<<100>>)),
                 BN(<<90>>)), BN(<<100>>)), FALSE, TRUE>>
  ELSE <<minTokensOut, FALSE, FALSE>>

\* the sanity checks and the value returned after them:
\* <<value, tokens_out <= 0 warned, cap warned>>
sanityChecked(tokensOut, minTokensOut) ==
  IF lte(tokensOut, BN(<<0>>))
  THEN <<BN(<<0>>), TRUE, FALSE>>
  ELSE IF gt(tokensOut, INITIAL_REAL_TOKEN_RESERVES)
  THEN <<div(mul(INITIAL_REAL_TOKEN_RESERVES, BN(<<90>>)), BN(<<100>>)), FALSE, TRUE>>
  ELSE <<minTokensOut, FALSE, FALSE>>

\* what a run of the try block leaves behind when an exception cuts it
\* short: nothing was logged, no value was computed
NotComputed ==
  [computed |-> FALSE, SOL_TO_SPEND |-> BN(<<0>>), tokensOut |-> BN(<<0>>),
   minTokensOut |-> BN(<<0>>), warnGraduation |-> FALSE,
   warnNonPositive |-> FALSE, warnCapped |-> FALSE]

\* the catch block: logs the error and returns new BN(0)
catchBlock ==
  [threw |-> FALSE, caught |-> TRUE, ret |-> BN(<<0>>)] @@ NotComputed

\* the graduation check returning zero with its warning
tryBlockGated(escrowBalanceBN) ==
  LET SOL_TO_SPEND == spendable(escrowBalanceBN)
      finalSol     == finalSolOf(SOL_TO_SPEND)
      finalTokens  == finalTokensOf(finalSol)
      tokensOut    == tokensOutOf(finalTokens)
      minTokensOut == slippage(tokensOut)
      checked      == sanityChecked(tokensOut, minTokensOut)
      warned       == lt(SOL_TO_SPEND, GRADUATION_THRESHOLD)
  IN  IF isZero(finalSol)
      THEN [threw |-> TRUE, caught |-> FALSE, ret |-> BN(<<0>>)] @@ NotComputed
      ELSE [threw |-> FALSE, caught |-> FALSE,
            ret |-> IF warned THEN BN(<<0>>) ELSE checked[1],
            computed |-> TRUE, SOL_TO_SPEND |-> SOL_TO_SPEND,
            tokensOut |-> tokensOut, minTokensOut |-> minTokensOut,
            warnGraduation |-> warned,
            warnNonPositive |-> checked[2], warnCapped |-> checked[3]]

\* the try block on a balance that was read
tryBlock(escrowBalanceBN) ==
  LET SOL_TO_SPEND == spendable(escrowBalanceBN)
      finalSol     == finalSolOf(SOL_TO_SPEND)
      finalTokens  == finalTokensOf(finalSol)
      tokensOut    == tokensOutOf(finalTokens)
      minTokensOut == slippage(tokensOut)
      checked      == sanityChecked(tokensOut, minTokensOut)
  IN  IF isZero(finalSol)
      THEN [threw |-> TRUE, caught |-> FALSE, ret |-> BN(<<0>>)] @@ NotComputed
      ELSE [threw |-> FALSE, caught |-> FALSE, ret |-> checked[1],
            computed |-> TRUE, SOL_TO_SPEND |-> SOL_TO_SPEND,
            tokensOut |-> tokensOut, minTokensOut |-> minTokensOut,
            warnGraduation |-> lt(SOL_TO_SPEND, GRADUATION_THRESHOLD),
            warnNonPositive |-> checked[2], warnCapped |-> checked[3]]

\* the body without its try/catch: the rejected read propagates
calculateWithoutCatch(read) ==
  IF read.rejected
  THEN [threw |-> TRUE, caught |-> FALSE, ret |-> BN(<<0>>)] @@ NotComputed
  ELSE tryBlock(read.balance)

\* read is the outcome of connection.getBalance(escrowPda): it rejected, or
\* it resolved to a balance.  An exception of the try block (the rejected
\* read, bn.js's assertion on a zero divisor) ends in the catch block.
calculateMinTokensForGraduation(read) ==
  IF read.rejected THEN catchBlock
  ELSE LET r == tryBlock(read.balance)
       IN  IF r.threw THEN catchBlock ELSE r

\* ------------------------------------------------------------------------
\* BundlyAgent.finalize and the chain state it reads
\* ------------------------------------------------------------------------
MaxStep == 2

\* escrow balances the chain is taken through: from each anchor, MaxStep
\* lamports upward.  The anchors sit just below the fixed costs, just below
\* the graduation threshold, just below the reserve ceiling, at 1 SOL, at
\* 100 SOL and just below 10^15 lamports.
Anchors ==
  { BN(<<0>>), BN(<<1449, 9999>>), BN(<<10, 0, 0>>), BN(<<850, 1449, 9999>>),
    BN(<<850, 1985, 9055>>), BN(<<1000, 0, 0>>), BN(<<999, 9999, 9999, 9998>>) }

Balances == { add(a, BN(<<d>>)) : a \in Anchors, d \in 0..MaxStep }

VARIABLES
  escrowLamports,  \* lamports the escrow account holds on chain
  pc,              \* where the finalize call stands
  thrownBy,        \* the step whose exception ended the call, or "none"
  options,         \* <<what the options of the finalize call hold>>
  tokenUri,        \* the metadata URI of the call: "none", "supplied", "uploaded"
  uploaded,        \* the call uploaded metadata to IPFS
  escrowBalance,   \* <<outcome of getBalance>> once the estimator ran
  est,             \* <<what the estimator logged and returned>>
  builderArgs,     \* <<the minTokensOut the finalize builder was called with>>
  minTokensBN,     \* <<the value given to finalizePumpfun>>
  tx,              \* <<the finalize transaction sent>>
  inv,             \* estimator invocations of independent callers
  now,             \* Date.now(), in milliseconds
  tokenBalance,    \* the wallet's token balance, in base units
  network,         \* BundlyAgent.network
  ataExists,       \* the wallet's associated token account exists on chain
  slots,           \* the agent's calls in flight
  apiKey,          \* ClawClient.apiKey
  keySetBy,        \* the ClawClient calls that have assigned apiKey
  baseUrlOk,       \* ClawClient.baseUrl parses as a URL
  clawCall         \* <<the last ClawClient call and its outcome>>

finalizeVars == <<escrowLamports, pc, thrownBy, options, tokenUri, uploaded,
                  builderArgs, escrowBalance, est, minTokensBN, tx>>
estimatorVars == <<inv>>
agentVars == <<now, tokenBalance, network, ataExists, slots>>
clawVars == <<apiKey, keySetBy, baseUrlOk, clawCall>>

vars == <<finalizeVars, estimatorVars, agentVars, clawVars>>

\* independent callers of the estimator, calls the agent can have in flight
Callers == {"a", "b"}
Slots == {"first", "second"}

\* no finalize call under way
FinalizeIdle ==
  /\ pc = "idle"
  /\ thrownBy = "none"
  /\ options = <<>>
  /\ tokenUri = "none"
  /\ uploaded = FALSE
  /\ builderArgs = <<>>
  /\ escrowBalance = <<>>
  /\ est = <<>>
  /\ minTokensBN = <<>>
  /\ tx = <<>>

EstimatorIdle == inv = [c \in Callers |-> <<>>]

AgentIdle ==
  /\ now = 0
  /\ tokenBalance = 0
  /\ network = "devnet"
  /\ ataExists = FALSE
  /\ slots = [s \in Slots |-> <<>>]

\* new ClawClient({ wallet })
ClawConstructed ==
  /\ apiKey = "null"
  /\ keySetBy = {}
  /\ baseUrlOk = TRUE
  /\ clawCall = <<>>

Init ==
  /\ escrowLamports \in Balances
  /\ FinalizeIdle
  /\ EstimatorIdle
  /\ AgentIdle
  /\ ClawConstructed

\* the upload made whenever the four fields are there, metadataUri or not
FinalizeMetadataAlwaysUploading(hasMetadataUri, hasFields, uploadOk) ==
  /\ pc = "idle"
  /\ options' = <<[metadataUri |-> hasMetadataUri, fields |-> hasFields]>>
  /\ IF hasFields /\ uploadOk
     THEN /\ pc' = "metadata"
          /\ tokenUri' = "uploaded"
          /\ uploaded' = TRUE
          /\ UNCHANGED thrownBy
     ELSE IF hasMetadataUri
     THEN /\ pc' = "metadata"
          /\ tokenUri' = "supplied"
          /\ UNCHANGED <<thrownBy, uploaded>>
     ELSE /\ pc' = "threw"
          /\ thrownBy' = IF hasFields THEN "upload" ELSE "validation"
          /\ UNCHANGED <<tokenUri, uploaded>>
  /\ UNCHANGED <<escrowLamports, builderArgs, escrowBalance, est, minTokensBN,
                 tx>>
  /\ UNCHANGED <<estimatorVars, agentVars, clawVars>>

\* finalize, to the generated pump.fun mint: a metadataUri is used as it is;
\* without one all of imagePath, name, symbol, description are required and
\* the metadata is uploaded, which can reject
FinalizeMetadata(hasMetadataUri, hasFields, uploadOk) ==
  /\ pc = "idle"
  /\ options' = <<[metadataUri |-> hasMetadataUri, fields |-> hasFields]>>
  /\ IF hasMetadataUri
     THEN /\ pc' = "metadata"
          /\ tokenUri' = "supplied"
          /\ UNCHANGED <<thrownBy, uploaded>>
     ELSE IF ~hasFields
     THEN /\ pc' = "threw"
          /\ thrownBy' = "validation"
          /\ UNCHANGED <<tokenUri, uploaded>>
     ELSE IF uploadOk
     THEN /\ pc' = "metadata"
          /\ tokenUri' = "uploaded"
          /\ uploaded' = TRUE
          /\ UNCHANGED thrownBy
     ELSE /\ pc' = "threw"
          /\ thrownBy' = "upload"
          /\ UNCHANGED <<tokenUri, uploaded>>
  /\ UNCHANGED <<escrowLamports, builderArgs, escrowBalance, est, minTokensBN,
                 tx>>
  /\ UNCHANGED <<estimatorVars, agentVars, clawVars>>

\* the builder reading the balance of the bundle account, which it is also
\* given, in place of the escrow's
buildReadingBundleAccount(rejected) ==
  /\ pc = "metadata"
  /\ LET read == [rejected |-> rejected, balance |-> BN(<<200, 0>>)]
         r    == calculateMinTokensForGraduation(read)
     IN  /\ escrowBalance' = <<read>>
         /\ est' = <<r>>
         /\ pc' = "built"
         /\ minTokensBN' = <<r.ret>>
         /\ UNCHANGED thrownBy
  /\ builderArgs' = <<[kind |-> "omitted", value |-> 0]>>
  /\ UNCHANGED <<escrowLamports, options, tokenUri, uploaded, tx>>
  /\ UNCHANGED <<estimatorVars, agentVars, clawVars>>

\* buildFinalizePumpfunInstruction as finalize calls it, minTokensOut left
\* to its default null: the estimator reads the escrow balance and its value
\* goes into the instruction
buildFinalizePumpfunInstruction(rejected) ==
  /\ pc = "metadata"
  /\ LET read == [rejected |-> rejected, balance |-> escrowLamports]
         r    == calculateMinTokensForGraduation(read)
     IN  /\ escrowBalance' = <<read>>
         /\ est' = <<r>>
         /\ IF r.threw
            THEN /\ pc' = "threw"
                 /\ thrownBy' = "estimator"
                 /\ UNCHANGED minTokensBN
            ELSE /\ pc' = "built"
                 /\ minTokensBN' = <<r.ret>>
                 /\ UNCHANGED thrownBy
  /\ builderArgs' = <<[kind |-> "omitted", value |-> 0]>>
  /\ UNCHANGED <<escrowLamports, options, tokenUri, uploaded, tx>>
  /\ UNCHANGED <<estimatorVars, agentVars, clawVars>>

\* getLatestBlockhash, sign, sendRawTransaction
SendFinalize(ok) ==
  /\ pc = "built"
  /\ IF ok
     THEN /\ pc' = "sent"
          /\ tx' = <<[minTokensOut |-> minTokensBN[1]]>>
          /\ UNCHANGED thrownBy
     ELSE /\ pc' = "threw"
          /\ thrownBy' = "send"
          /\ UNCHANGED tx
  /\ UNCHANGED <<escrowLamports, options, tokenUri, uploaded, builderArgs,
                 escrowBalance, est, minTokensBN>>
  /\ UNCHANGED <<estimatorVars, agentVars, clawVars>>

\* confirmTransaction and the return of { signature, pumpfunMint,
\* metadataUri: tokenUri }
ConfirmFinalize(ok) ==
  /\ pc = "sent"
  /\ IF ok
     THEN /\ pc' = "returned"
          /\ UNCHANGED thrownBy
     ELSE /\ pc' = "threw"
          /\ thrownBy' = "confirm"
  /\ UNCHANGED <<escrowLamports, options, tokenUri, uploaded, builderArgs,
                 escrowBalance, est, minTokensBN, tx>>
  /\ UNCHANGED <<estimatorVars, agentVars, clawVars>>

\* the call is over, its locals are gone; the agent can call finalize again
FinalizeDone ==
  /\ pc \in {"returned", "threw"}
  /\ pc' = "idle"
  /\ thrownBy' = "none"
  /\ options' = <<>>
  /\ tokenUri' = "none"
  /\ uploaded' = FALSE
  /\ builderArgs' = <<>>
  /\ escrowBalance' = <<>>
  /\ est' = <<>>
  /\ minTokensBN' = <<>>
  /\ tx' = <<>>
  /\ UNCHANGED escrowLamports
  /\ UNCHANGED <<estimatorVars, agentVars, clawVars>>

\* a swap or a presale exit of any user moves lamports into or out of the
\* escrow
EscrowChanges(b) ==
  /\ b # escrowLamports
  /\ escrowLamports' = b
  /\ UNCHANGED <<pc, thrownBy, options, tokenUri, uploaded, builderArgs,
                 escrowBalance, est, minTokensBN, tx>>
  /\ UNCHANGED <<estimatorVars, agentVars, clawVars>>

Next ==
  \/ \E u, f, o \in BOOLEAN : FinalizeMetadata(u, f, o)
  \/ \E rejected \in BOOLEAN : buildFinalizePumpfunInstruction(rejected)
  \/ \E ok \in BOOLEAN : SendFinalize(ok)
  \/ \E ok \in BOOLEAN : ConfirmFinalize(ok)
  \/ FinalizeDone
  \/ \E b \in Balances : EscrowChanges(b)

Spec == Init /\ [][Next]_vars

\* ------------------------------------------------------------------------
\* Properties of the estimator
\* ------------------------------------------------------------------------
\* the estimator ran on a balance it could read and computed its figures
Estimated == est # <<>> /\ est[1].computed

Zero == BN(<<0>>)

\* virtualTokenReserves - floor(k / (virtualBaseReserves + spendable)) for
\* the escrow balance b, in the terms of the specification
naiveTokensExpected(b) ==
  sub(BN(<<1073, 0, 0, 0>>),
      div(mul(BN(<<300, 0, 0>>), BN(<<1073, 0, 0, 0>>)),
          add(BN(<<300, 0, 0>>), sub(b, BN(<<1450, 0>>)))))

\* floor(t * 90 / 100) for t >= 0
ninetyPercent(t) == div(mul(t, BN(<<90>>)), BN(<<100>>))

\* C1: an escrow balance below or equal to the fixed costs of 14_500_000
\* gives a returned minTokensOut of zero; the balance 14_500_001 takes the
\* normal path (no exception, no tokens_out <= 0 warning) and returns a
\* non-zero minTokensOut.
C1_InsufficientEscrowBoundary ==
  Estimated =>
    LET b == escrowBalance[1].balance
    IN  /\ lte(b, BN(<<1450, 0>>)) => isZero(est[1].ret)
        /\ b = BN(<<1450, 1>>) =>
             /\ ~isZero(est[1].ret)
             /\ ~est[1].caught
             /\ ~est[1].warnNonPositive

C1_Witness ==
  /\ Estimated
  /\ escrowBalance[1].balance = BN(<<1450, 1>>)
  /\ est[1].ret = BN(<<3, 2190>>)

\* C2: whenever the unclamped tokensExpected exceeds
\* initialRealTokenReserves, the returned minTokensOut is exactly
\* floor(793_100_000_000_000 * 90 / 100) = 713_790_000_000_000, whatever the
\* size of spendable.
C2_CeilingClamp ==
  Estimated =>
    (gt(naiveTokensExpected(escrowBalance[1].balance), BN(<<793, 1000, 0, 0>>))
       => est[1].ret = BN(<<713, 7900, 0, 0>>))

C2_Witness ==
  /\ Estimated
  /\ escrowBalance[1].balance = BN(<<1000, 0, 0, 0>>)
  /\ est[1].warnCapped
  /\ est[1].ret = ninetyPercent(INITIAL_REAL_TOKEN_RESERVES)

\* C3 as stated: at the escrow balance 100_000_000_000 the estimator returns
\* floor(tokensExpected * 90 / 100) with tokensExpected =
\* virtualTokenReserves - floor(k / 129_985_500_000).
C3_GoldenAsStated ==
  (Estimated /\ escrowBalance[1].balance = BN(<<1000, 0, 0>>)) =>
    est[1].ret =
      ninetyPercent(sub(BN(<<1073, 0, 0, 0>>),
                        div(mul(BN(<<300, 0, 0>>), BN(<<1073, 0, 0, 0>>)),
                            BN(<<1299, 8550, 0>>))))

\* C3, amended: at the escrow balance 100_000_000_000 spendable is
\* 99_985_500_000 and tokensExpected is 825_356_993_664_678, which exceeds
\* initialRealTokenReserves; floor(tokensExpected * 90 / 100) =
\* 742_821_294_298_210 is only logged and the estimator returns the cap,
\* 713_790_000_000_000.
C3_GoldenScenario ==
  (Estimated /\ escrowBalance[1].balance = BN(<<1000, 0, 0>>)) =>
    /\ est[1].SOL_TO_SPEND = BN(<<999, 8550, 0>>)
    /\ est[1].tokensOut = BN(<<825, 3569, 9366, 4678>>)
    /\ est[1].minTokensOut = BN(<<742, 8212, 9429, 8210>>)
    /\ est[1].ret = BN(<<713, 7900, 0, 0>>)

C3_Witness ==
  /\ Estimated
  /\ escrowBalance[1].balance = BN(<<1000, 0, 0>>)
  /\ est[1].warnCapped
  /\ pc = "built"

\* C4 as stated: for every escrow balance minTokensOut <= tokensExpected,
\* and when 0 < tokensExpected <= initialRealTokenReserves the returned
\* minTokensOut is floor(tokensExpected * 90 / 100).
C4_ConservativeAsStated ==
  Estimated =>
    /\ lte(est[1].ret, est[1].tokensOut)
    /\ (gt(est[1].tokensOut, Zero)
        /\ lte(est[1].tokensOut, BN(<<793, 1000, 0, 0>>)))
         => est[1].ret = ninetyPercent(est[1].tokensOut)

\* C4, amended: for every escrow balance not below the fixed costs
\* (tokensExpected >= 0) minTokensOut <= tokensExpected, and when
\* 0 < tokensExpected <= initialRealTokenReserves the returned minTokensOut
\* is floor(tokensExpected * 90 / 100); for a balance below the fixed costs
\* tokensExpected is negative and the returned minTokensOut is zero, which
\* is above it.
C4_Conservative ==
  Estimated =>
    /\ gte(est[1].tokensOut, Zero) => lte(est[1].ret, est[1].tokensOut)
    /\ (gt(est[1].tokensOut, Zero)
        /\ lte(est[1].tokensOut, BN(<<793, 1000, 0, 0>>)))
         => est[1].ret = ninetyPercent(est[1].tokensOut)
    /\ lt(est[1].tokensOut, Zero) =>
         (isZero(est[1].ret) /\ lt(escrowBalance[1].balance, BN(<<1450, 0>>)))

C4_Witness ==
  /\ Estimated
  /\ escrowBalance[1].balance = BN(<<10, 0, 0>>)
  /\ est[1].tokensOut = BN(<<34, 1269, 7874, 8125>>)
  /\ est[1].ret = BN(<<30, 7142, 8087, 3312>>)

finalBase == add(BN(<<300, 0, 0>>), est[1].SOL_TO_SPEND)

\* (virtualTokenReserves - k / finalBase) * finalBase, the exact
\* constant-product output scaled by finalBase
exactOutputScaled ==
  sub(mul(BN(<<1073, 0, 0, 0>>), finalBase),
      mul(BN(<<300, 0, 0>>), BN(<<1073, 0, 0, 0>>)))

\* C6 as stated: for every positive spendable the computed tokensExpected
\* does not exceed the exact constant-product output,
\* tokensExpected * finalBase <= virtualTokenReserves * finalBase - k.
C6_RoundingAsStated ==
  (Estimated /\ gt(est[1].SOL_TO_SPEND, Zero)) =>
    lte(mul(est[1].tokensOut, finalBase), exactOutputScaled)

\* C6, amended: because finalTokens = k / finalBase is truncated toward
\* zero, finalTokens is never above k / finalBase and the computed
\* tokensExpected is never below the exact constant-product output; it
\* exceeds it by less than one token unit:
\* virtualTokenReserves * finalBase - k <= tokensExpected * finalBase
\* < virtualTokenReserves * finalBase - k + finalBase, for every positive
\* spendable.
C6_Rounding ==
  (Estimated /\ gt(est[1].SOL_TO_SPEND, Zero)) =>
    /\ gte(mul(est[1].tokensOut, finalBase), exactOutputScaled)
    /\ lt(mul(est[1].tokensOut, finalBase), add(exactOutputScaled, finalBase))

\* spendable = 1: tokensExpected = 35_767 is above the exact 35_766.66...
C6_Witness ==
  /\ Estimated
  /\ est[1].SOL_TO_SPEND = BN(<<1>>)
  /\ est[1].tokensOut = BN(<<3, 5767>>)
  /\ gt(mul(est[1].tokensOut, finalBase), exactOutputScaled)

\* the tokensExpected the estimator computes for each balance of the model
tokensExpectedAt == [b \in Balances |-> tryBlock(b).tokensOut]

\* C7: over the range where tokensExpected does not exceed
\* initialRealTokenReserves, tokensExpected is strictly increasing in
\* spendable: the estimate of this state against that of every other
\* balance of the model.
C7_Monotonic ==
  (Estimated /\ lte(est[1].tokensOut, BN(<<793, 1000, 0, 0>>))) =>
    \A b2 \in Balances :
      LET s2 == sub(b2, BN(<<1450, 0>>))
          t2 == tokensExpectedAt[b2]
      IN  /\ (lt(est[1].SOL_TO_SPEND, s2) /\ lte(t2, BN(<<793, 1000, 0, 0>>)))
               => lt(est[1].tokensOut, t2)
          /\ lt(s2, est[1].SOL_TO_SPEND) => lt(t2, est[1].tokensOut)

\* the last balance before the reserve ceiling: spendable one lamport less
\* gives fewer tokens
C7_Witness ==
  /\ Estimated
  /\ escrowBalance[1].balance = BN(<<850, 1985, 9056>>)
  /\ est[1].tokensOut = BN(<<793, 999, 9999, 8039>>)
  /\ lt(tokensExpectedAt[BN(<<850, 1985, 9055>>)], est[1].tokensOut)

\* ------------------------------------------------------------------------
\* Failure of the estimate and what finalize does with it
\* ------------------------------------------------------------------------
\* the conditions of the estimator's run, in the terms of the specification
ReadFailed == est # <<>> /\ escrowBalance[1].rejected

InsufficientEscrow ==
  /\ est # <<>>
  /\ ~escrowBalance[1].rejected
  /\ lte(sub(escrowBalance[1].balance, BN(<<1450, 0>>)), Zero)

DegenerateEstimate ==
  /\ est # <<>>
  /\ ~escrowBalance[1].rejected
  /\ gt(sub(escrowBalance[1].balance, BN(<<1450, 0>>)), Zero)
  /\ lte(naiveTokensExpected(escrowBalance[1].balance), Zero)

EstimateFailed == ReadFailed \/ InsufficientEscrow \/ DegenerateEstimate

\* C8: when the estimate failed (spendable <= 0, or the balance could not
\* be read), finalize does not send a finalize transaction that carries the
\* zero minTokensOut of the failed estimate.
C8_NoSendOnFailedEstimate ==
  tx # <<>> => ~(EstimateFailed /\ isZero(tx[1].minTokensOut))

\* C9: the value the estimator returns tells a successful estimate from
\* InsufficientEscrow, from DegenerateEstimate and from a failed balance
\* read: it is zero in each of the three and non-zero after a successful
\* estimate.
C9_SuccessDistinguishable ==
  est # <<>> =>
    /\ ReadFailed => isZero(est[1].ret)
    /\ InsufficientEscrow => isZero(est[1].ret)
    /\ DegenerateEstimate => isZero(est[1].ret)
    /\ ~EstimateFailed => ~isZero(est[1].ret)

C9_Witness ==
  /\ InsufficientEscrow
  /\ escrowBalance[1].balance = BN(<<1450, 0>>)
  /\ est[1].warnNonPositive
  /\ isZero(est[1].ret)

\* C10: the estimator never throws: for every escrow balance, and when the
\* balance read is rejected, it returns a value, zero on any failure, and
\* buildFinalizePumpfunInstruction goes on to build the instruction with
\* that value.
C10_NeverThrows ==
  est # <<>> =>
    /\ ~est[1].threw
    /\ thrownBy # "estimator"
    /\ minTokensBN = <<est[1].ret>>
    /\ EstimateFailed => isZero(est[1].ret)

C10_Witness ==
  /\ ReadFailed
  /\ pc = "built"
  /\ est[1].caught
  /\ minTokensBN = <<Zero>>

\* ------------------------------------------------------------------------
\* The value handed to finalizePumpfun
\* ------------------------------------------------------------------------
\* C11: for every escrow balance >= 0 the minTokensOut handed to the
\* finalize instruction is a non-negative integer, also below the fixed
\* costs, where spendable and tokensExpected are negative; whenever
\* tokensExpected <= 0 it is exactly zero.
C11_NonNegativeOutput ==
  minTokensBN # <<>> =>
    /\ ~minTokensBN[1].neg
    /\ gte(minTokensBN[1], Zero)
    /\ (Estimated /\ lte(est[1].tokensOut, Zero)) => isZero(minTokensBN[1])

C11_Witness ==
  /\ Estimated
  /\ escrowBalance[1].balance = Zero
  /\ est[1].SOL_TO_SPEND.neg
  /\ est[1].tokensOut.neg
  /\ minTokensBN = <<Zero>>

\* the product of two integers, limb by limb, whatever width the
\* estimator's own multiplication has
exactMul(a, b) == mkBN(a.neg # b.neg, magMul(a.mag, b.mag))

\* 30_000_000_000 * 1_073_000_000_000_000
exactK == BN(<<32, 1900, 0, 0, 0, 0, 0>>)

\* q is the quotient of n by d > 0, truncated toward zero, for n >= 0
isQuotient(q, n, d) ==
  /\ lte(exactMul(q, d), n)
  /\ lt(n, exactMul(add(q, BN(<<1>>)), d))

\* C12: for every escrow balance from 0 to 10^15 the intermediate values
\* are the exact integers: spendable + 14_500_000 is the balance, finalTokens
\* is the truncated quotient of the exact k = 3.219 * 10^25 (beyond 64 bits)
\* by finalBase, and the logged minTokensOut is the truncated quotient of
\* tokensExpected * 90 by 100; nothing wrapped around, nothing was rounded.
C12_OverflowSafety ==
  Estimated =>
    LET b           == escrowBalance[1].balance
        finalSol    == add(BN(<<300, 0, 0>>), est[1].SOL_TO_SPEND)
        finalTokens == sub(BN(<<1073, 0, 0, 0>>), est[1].tokensOut)
    IN  /\ add(est[1].SOL_TO_SPEND, BN(<<1450, 0>>)) = b
        /\ gt(finalSol, Zero)
        /\ isQuotient(finalTokens, exactK, finalSol)
        /\ gte(est[1].tokensOut, Zero) =>
             isQuotient(est[1].minTokensOut,
                        exactMul(est[1].tokensOut, BN(<<90>>)), BN(<<100>>))

\* at 10^15 lamports
C12_Witness ==
  /\ Estimated
  /\ escrowBalance[1].balance = BN(<<1000, 0, 0, 0>>)
  /\ est[1].tokensOut = BN(<<1072, 9678, 1096, 5205>>)
  /\ est[1].minTokensOut = BN(<<965, 6710, 2986, 8684>>)

\* C13: in a finalize call the escrow balance is read by the builder, from
\* the chain as it stands at that step and before anything is sent; the
\* transaction sent afterwards carries the value the estimator computed
\* from that read of the same call; a call starts with no balance, estimate
\* or value left from an earlier call.
C13_ReadBeforeSend ==
  [][ /\ (escrowBalance' # escrowBalance /\ escrowBalance' # <<>>) =>
           /\ pc = "metadata"
           /\ tx = <<>> /\ tx' = <<>>
           /\ escrowBalance = <<>> /\ est = <<>> /\ minTokensBN = <<>>
           /\ ~escrowBalance'[1].rejected =>
                escrowBalance'[1].balance = escrowLamports
           /\ est' = <<calculateMinTokensForGraduation(escrowBalance'[1])>>
      /\ (tx' # tx /\ tx' # <<>>) =>
           /\ escrowBalance # <<>>
           /\ escrowBalance' = escrowBalance
           /\ est = <<calculateMinTokensForGraduation(escrowBalance[1])>>
           /\ tx'[1].minTokensOut = est[1].ret
      /\ (pc = "idle" /\ pc' # "idle") =>
           (escrowBalance = <<>> /\ est = <<>> /\ minTokensBN = <<>>)
    ]_vars

\* a transaction was sent after the escrow balance had moved on from the
\* one the call read
C13_Witness ==
  /\ pc = "sent"
  /\ tx # <<>>
  /\ ~escrowBalance[1].rejected
  /\ escrowBalance[1].balance = BN(<<1000, 0, 0>>)
  /\ escrowLamports = BN(<<10, 0, 0>>)
  /\ tx[1].minTokensOut = BN(<<713, 7900, 0, 0>>)

\* the value the zero, formula and cap rules give for the escrow balance b
ruleValue(b) ==
  LET t == naiveTokensExpected(b)
  IN  IF lte(t, Zero) THEN Zero
      ELSE IF gt(t, BN(<<793, 1000, 0, 0>>)) THEN BN(<<713, 7900, 0, 0>>)
      ELSE ninetyPercent(t)

\* C15: the not-graduating warning is raised exactly when spendable is
\* below 85_000_000_000, and with or without the warning the returned
\* minTokensOut is the value the zero, formula and cap rules give: the check
\* neither changes nor suppresses it.
C15_GraduationAdvisory ==
  Estimated =>
    LET b == escrowBalance[1].balance
    IN  /\ est[1].warnGraduation <=>
             lt(sub(b, BN(<<1450, 0>>)), BN(<<850, 0, 0>>))
        /\ est[1].ret = ruleValue(b)

\* spendable 84_999_999_999: warned, and the formula value is returned
C15_Witness ==
  /\ Estimated
  /\ escrowBalance[1].balance = BN(<<850, 1449, 9999>>)
  /\ est[1].warnGraduation
  /\ est[1].ret = BN(<<713, 7782, 6086, 7375>>)

InitEstimator ==
  /\ escrowLamports \in Balances
  /\ FinalizeIdle
  /\ EstimatorIdle
  /\ AgentIdle
  /\ ClawConstructed

\* what the estimator does on each outcome of its balance read
estimates ==
  {<<read, calculateMinTokensForGraduation(read)>> :
     read \in [rejected : BOOLEAN, balance : Balances]}

estimateOf(read) == (CHOOSE e \in estimates : e[1] = read)[2]

\* an estimator that keeps the last value it returned and hands it out again
EstimateMemoised(c, rejected) ==
  /\ LET read  == [rejected |-> rejected, balance |-> escrowLamports]
         other == CHOOSE d \in Callers : d # c
     IN  inv' = [inv EXCEPT ![c] =
                   <<[read   |-> read,
                      result |-> IF inv[other] # <<>>
                                 THEN inv[other][1].result
                                 ELSE estimateOf(read)]>>]
  /\ UNCHANGED <<finalizeVars, agentVars, clawVars>>

\* caller c awaits calculateMinTokensForGraduation(connection, escrowPda):
\* every name of the function is a const or let of the call, so the call
\* works from the balance it reads and from nothing else
Estimate(c, rejected) ==
  /\ LET read == [rejected |-> rejected, balance |-> escrowLamports]
     IN  inv' = [inv EXCEPT ![c] =
                   <<[read   |-> read,
                      result |-> estimateOf(read)]>>]
  /\ UNCHANGED <<finalizeVars, agentVars, clawVars>>

NextEstimator ==
  \/ \E c \in Callers, rejected \in BOOLEAN : Estimate(c, rejected)
  \/ \E b \in Balances : EscrowChanges(b)

SpecEstimator == InitEstimator /\ [][NextEstimator]_vars

Undefined == <<>>
TypeError == <<"TypeError">>

\* x.toBuffer() of every seed: a TypeError on an undefined one
findProgramAddress(seeds) ==
  IF \E i \in DOMAIN seeds : seeds[i] = Undefined \/ seeds[i] = TypeError
  THEN TypeError
  ELSE seeds

deriveBundlePda(mint) == findProgramAddress(<<<<"bundle_v2">>, mint>>)
deriveEscrowPda(mint) == findProgramAddress(<<<<"escrow_v2">>, mint>>)
deriveFeeVaultPda(bundlePda) ==
  findProgramAddress(<<<<"fee_vault_v1">>, bundlePda>>)
deriveStakingVaultPda(bundlePda) ==
  findProgramAddress(<<<<"staking_vault_v1">>, bundlePda>>)
deriveUnstakeVaultPda(mint, user) ==
  findProgramAddress(<<<<"unstake_vault_v2">>, mint, user>>)
deriveUnstakeRequestPda(mint, user) ==
  findProgramAddress(<<<<"unstake_request_v1">>, mint, user>>)
deriveUserStakePda(bundlePda, user) ==
  findProgramAddress(<<<<"user_stake_v1">>, bundlePda, user>>)
\* the nonce is written as an unsigned 64-bit integer, which holds every
\* Date.now()
deriveMintPda(creator, nonce) ==
  findProgramAddress(<<<<"bundle_mint_v1">>, creator, <<"u64", nonce>>>>)
deriveOrderPda(mint, maker, idSeed) ==
  findProgramAddress(<<<<"order_v1">>, mint, maker, <<"u64", idSeed>>>>)
deriveOrderVaultPda(orderPda) ==
  findProgramAddress(<<<<"vault_v2">>, orderPda>>)
getAssociatedTokenAddressSync(mint, owner) ==
  findProgramAddress(<<<<"ata">>, owner, mint>>)

\* program.methods.<method>(args).accounts(accounts).instruction(), reached
\* only when no derivation before it threw
instructionOf(method, args, accounts) ==
  [threw    |-> \E key \in DOMAIN accounts : accounts[key] = TypeError,
   method   |-> method,
   args     |-> args,
   accounts |-> accounts]

buildInitBundleInstruction(creator, nonce) ==
  LET mintPda == deriveMintPda(creator, nonce)
  IN  instructionOf("initBundle", <<nonce>>,
        [creator |-> creator,
         mint    |-> mintPda,
         bundle  |-> deriveBundlePda(mintPda),
         escrow  |-> deriveEscrowPda(mintPda)])

buildPresaleExitInstruction(mint, user, amountBtoken) ==
  LET bundlePda == deriveBundlePda(mint)
  IN  instructionOf("presaleExit", <<amountBtoken>>,
        [user       |-> user,
         bundle     |-> bundlePda,
         mint       |-> mint,
         userBtoken |-> getAssociatedTokenAddressSync(mint, user),
         escrow     |-> deriveEscrowPda(mint),
         userStake  |-> deriveUserStakePda(bundlePda, user)])

buildDepositStakeInstruction(mint, user, amount) ==
  LET bundlePda == deriveBundlePda(mint)
  IN  instructionOf("depositStake", <<amount>>,
        [user          |-> user,
         bundle        |-> bundlePda,
         mint          |-> mint,
         userRealToken |-> getAssociatedTokenAddressSync(mint, user),
         userBtoken    |-> getAssociatedTokenAddressSync(mint, user),
         stakingVault  |-> deriveStakingVaultPda(bundlePda),
         feeVault      |-> deriveFeeVaultPda(bundlePda),
         userStake     |-> deriveUserStakePda(bundlePda, user)])

buildPrepareUnstakeInstruction(mint, user) ==
  LET bundlePda == deriveBundlePda(mint)
  IN  instructionOf("prepareUnstake", <<>>,
        [user           |-> user,
         bundle         |-> bundlePda,
         mint           |-> mint,
         unstakeRequest |-> deriveUnstakeRequestPda(bundlePda, user),
         userStake      |-> deriveUserStakePda(bundlePda, user)])

\* deriveUnstakeVaultPda is called with the mint alone
buildExecuteUnstakeInstruction(mint, user, amountBtoken) ==
  LET bundlePda == deriveBundlePda(mint)
  IN  instructionOf("executeUnstake", <<amountBtoken>>,
        [user           |-> user,
         bundle         |-> bundlePda,
         mint           |-> mint,
         userBtoken     |-> getAssociatedTokenAddressSync(mint, user),
         stakingVault   |-> deriveStakingVaultPda(bundlePda),
         feeVault       |-> deriveFeeVaultPda(bundlePda),
         unstakeRequest |-> deriveUnstakeRequestPda(bundlePda, user),
         unstakeVault   |-> deriveUnstakeVaultPda(mint, Undefined),
         userStake      |-> deriveUserStakePda(bundlePda, user)])

\* deriveUnstakeVaultPda is called with the mint alone
buildWithdrawUnstakedInstruction(mint, user) ==
  LET bundlePda == deriveBundlePda(mint)
  IN  instructionOf("withdrawUnstaked", <<>>,
        [user           |-> user,
         bundle         |-> bundlePda,
         mint           |-> mint,
         unstakeRequest |-> deriveUnstakeRequestPda(bundlePda, user),
         unstakeVault   |-> deriveUnstakeVaultPda(mint, Undefined),
         destination    |-> getAssociatedTokenAddressSync(mint, user),
         userStake      |-> deriveUserStakePda(bundlePda, user)])

buildClaimRewardsInstruction(mint, user) ==
  LET bundlePda == deriveBundlePda(mint)
  IN  instructionOf("claimRewards", <<>>,
        [user          |-> user,
         bundle        |-> bundlePda,
         mint          |-> mint,
         userBtoken    |-> getAssociatedTokenAddressSync(mint, user),
         userRealToken |-> getAssociatedTokenAddressSync(mint, user),
         stakingVault  |-> deriveStakingVaultPda(bundlePda),
         feeVault      |-> deriveFeeVaultPda(bundlePda),
         userStake     |-> deriveUserStakePda(bundlePda, user)])

buildCreateOrderInstruction(mint, maker, idSeed) ==
  LET bundlePda == deriveBundlePda(mint)
      orderPda  == deriveOrderPda(mint, maker, idSeed)
  IN  instructionOf("createOrder", <<idSeed>>,
        [maker             |-> maker,
         order             |-> orderPda,
         orderVault        |-> deriveOrderVaultPda(orderPda),
         makerTokenAccount |-> getAssociatedTokenAddressSync(mint, maker),
         mint              |-> mint,
         bundle            |-> bundlePda,
         userStake         |-> deriveUserStakePda(bundlePda, maker)])

\* ------------------------------------------------------------------------
\* The agent's calls.  A token amount is a JavaScript number of tokens; the
\* model writes it as the integer count n of AmountUnit-ths of a token, so
\* that amounts between two base units exist.
\* ------------------------------------------------------------------------
TOKEN_DECIMALS == 6
AmountUnit == 10 ^ (TOKEN_DECIMALS + 1)

\* Math.floor(amount * Math.pow(10, TOKEN_DECIMALS))
toBaseUnits(n) == (n * 10 ^ TOKEN_DECIMALS) \div AmountUnit

\* balance.value.uiAmount of a token account holding base units
uiAmount(base) == (base * AmountUnit) \div 10 ^ TOKEN_DECIMALS

MaxClock == 2

Mint == <<"mint">>
AgentKey == <<"agent">>
\* options.amount: left out, or a number
AmountOptions == {<<>>, <<-5>>, <<0>>, <<5>>, <<25>>}
\* options.nonce, options.idSeed: left out, or a number
SeedOptions == {<<>>} \cup {<<n>> : n \in 0..MaxClock}
TokenBalances == {0, 7}
Networks == {"devnet", "mainnet-beta"}

LAMPORTS_PER_SOL == 1000000000

\* Math.floor(solAmount * LAMPORTS_PER_SOL): AmountUnit divides
\* LAMPORTS_PER_SOL, so that nothing is cut off
toLamports(n) == n * (LAMPORTS_PER_SOL \div AmountUnit)

buildSwapInstruction(mint, user, amountLamports, minTokensOut) ==
  LET bundlePda == deriveBundlePda(mint)
  IN  instructionOf("swap", <<amountLamports, minTokensOut>>,
        [buyer       |-> user,
         bundle      |-> bundlePda,
         escrow      |-> deriveEscrowPda(mint),
         mint        |-> mint,
         buyerTokens |-> getAssociatedTokenAddressSync(mint, user),
         userStake   |-> deriveUserStakePda(bundlePda, user)])

createAssociatedTokenAccountInstruction(payer, ata, owner, mint) ==
  instructionOf("createAssociatedTokenAccount", <<>>,
    [payer |-> payer, ata |-> ata, owner |-> owner, mint |-> mint])

deriveTokenVaultPda(mint) == findProgramAddress(<<<<"vault_v2">>, mint>>)

\* the fee vault is derived from the mint here
deriveAllBundlePdas(mint) ==
  LET bundlePda == deriveBundlePda(mint)
  IN  [bundlePda       |-> bundlePda,
       escrowPda       |-> deriveEscrowPda(mint),
       tokenVaultPda   |-> deriveTokenVaultPda(mint),
       feeVaultPda     |-> deriveFeeVaultPda(mint),
       stakingVaultPda |-> deriveStakingVaultPda(bundlePda)]

\* a call that has passed nothing yet
call(name, amount, seed) ==
  [name        |-> name,
   amount      |-> amount,
   seed        |-> seed,
   stage       |-> "threw",
   threwAt     |-> "validation",
   complete    |-> TRUE,
   usedBalance |-> FALSE,
   ataInfo     |-> "unread",
   log         |-> <<>>,
   ix          |-> <<>>,
   address     |-> <<>>,
   txs         |-> 0]

\* the call after its builder: the instruction is in a new Transaction and
\* sendAndConfirm is next, unless the builder threw
built(c, ix) ==
  IF ix.threw
  THEN [c EXCEPT !.stage = "threw", !.threwAt = "build"]
  ELSE [c EXCEPT !.stage = "sending", !.threwAt = "none", !.ix = <<ix>>]

\* !amount || amount <= 0
notPositive(amount) == amount = <<>> \/ amount[1] <= 0

Stake(s, amount) ==
  /\ slots[s] = <<>>
  /\ LET c == call("stake", amount, <<>>)
     IN  slots' = [slots EXCEPT ![s] =
           <<IF notPositive(amount)
             THEN c
             ELSE built(c, buildDepositStakeInstruction(
                             Mint, AgentKey, toBaseUnits(amount[1])))>>]
  /\ UNCHANGED <<now, tokenBalance, network, ataExists>>
  /\ UNCHANGED <<finalizeVars, estimatorVars, clawVars>>

PrepareUnstake(s) ==
  /\ slots[s] = <<>>
  /\ slots' = [slots EXCEPT ![s] =
       <<built(call("prepareUnstake", <<>>, <<>>),
               buildPrepareUnstakeInstruction(Mint, AgentKey))>>]
  /\ UNCHANGED <<now, tokenBalance, network, ataExists>>
  /\ UNCHANGED <<finalizeVars, estimatorVars, clawVars>>

ExecuteUnstake(s, amount) ==
  /\ slots[s] = <<>>
  /\ LET c == call("executeUnstake", amount, <<>>)
     IN  slots' = [slots EXCEPT ![s] =
           <<IF notPositive(amount)
             THEN c
             ELSE built(c, buildExecuteUnstakeInstruction(
                             Mint, AgentKey, toBaseUnits(amount[1])))>>]
  /\ UNCHANGED <<now, tokenBalance, network, ataExists>>
  /\ UNCHANGED <<finalizeVars, estimatorVars, clawVars>>

WithdrawUnstaked(s) ==
  /\ slots[s] = <<>>
  /\ slots' = [slots EXCEPT ![s] =
       <<built(call("withdrawUnstaked", <<>>, <<>>),
               buildWithdrawUnstakedInstruction(Mint, AgentKey))>>]
  /\ UNCHANGED <<now, tokenBalance, network, ataExists>>
  /\ UNCHANGED <<finalizeVars, estimatorVars, clawVars>>

ClaimRewards(s) ==
  /\ slots[s] = <<>>
  /\ slots' = [slots EXCEPT ![s] =
       <<built(call("claimRewards", <<>>, <<>>),
               buildClaimRewardsInstruction(Mint, AgentKey))>>]
  /\ UNCHANGED <<now, tokenBalance, network, ataExists>>
  /\ UNCHANGED <<finalizeVars, estimatorVars, clawVars>>

\* if (amount) ... else the balance of getTokenBalance, which is 0 when the
\* read fails
PresaleExit(s, amount, readOk) ==
  /\ slots[s] = <<>>
  /\ LET c        == call("presaleExit", amount, <<>>)
         truthy   == amount # <<>> /\ amount[1] # 0
         balance  == IF readOk THEN uiAmount(tokenBalance) ELSE 0
         tokenAmount == IF truthy THEN toBaseUnits(amount[1])
                                  ELSE toBaseUnits(balance)
     IN  slots' = [slots EXCEPT ![s] =
           <<built([c EXCEPT !.usedBalance = ~truthy,
                             !.log = IF truthy THEN <<>>
                                     ELSE <<"getTokenAccountBalance">>],
                   buildPresaleExitInstruction(Mint, AgentKey,
                                               tokenAmount))>>]
  /\ UNCHANGED <<now, tokenBalance, network, ataExists>>
  /\ UNCHANGED <<finalizeVars, estimatorVars, clawVars>>

\* nonce = Date.now() when options.nonce is left out; valid: capSol and
\* totalSupply are there
CreateBundle(s, nonce, valid) ==
  /\ slots[s] = <<>>
  /\ LET c  == call("createBundle", <<>>, nonce)
         ix == buildInitBundleInstruction(
                 AgentKey, IF nonce = <<>> THEN now ELSE nonce[1])
     IN  slots' = [slots EXCEPT ![s] =
           <<IF ~valid
             THEN [c EXCEPT !.complete = FALSE]
             ELSE [built(c, ix) EXCEPT !.address = <<ix.accounts.mint>>]>>]
  /\ UNCHANGED <<now, tokenBalance, network, ataExists>>
  /\ UNCHANGED <<finalizeVars, estimatorVars, clawVars>>

\* idSeed = Date.now() when options.idSeed is left out; valid: amount and
\* price are there
CreateOrder(s, idSeed, valid) ==
  /\ slots[s] = <<>>
  /\ LET c  == call("createOrder", <<>>, idSeed)
         ix == buildCreateOrderInstruction(
                 Mint, AgentKey, IF idSeed = <<>> THEN now ELSE idSeed[1])
     IN  slots' = [slots EXCEPT ![s] =
           <<IF ~valid
             THEN [c EXCEPT !.complete = FALSE]
             ELSE [built(c, ix) EXCEPT !.address = <<ix.accounts.order>>]>>]
  /\ UNCHANGED <<now, tokenBalance, network, ataExists>>
  /\ UNCHANGED <<finalizeVars, estimatorVars, clawVars>>

\* a buy that looks up the token account before it looks at solAmount
BuyCheckingFirst(s, solAmount) ==
  /\ slots[s] = <<>>
  /\ LET c == [call("buy", solAmount, <<>>) EXCEPT !.log = <<"getAccountInfo">>]
     IN  slots' = [slots EXCEPT ![s] =
           <<IF notPositive(solAmount)
             THEN c
             ELSE [c EXCEPT !.stage = "checking", !.threwAt = "none"]>>]
  /\ UNCHANGED <<now, tokenBalance, network, ataExists>>
  /\ UNCHANGED <<finalizeVars, estimatorVars, clawVars>>

\* buy, to its await of getAccountInfo(ataAddress)
Buy(s, solAmount) ==
  /\ slots[s] = <<>>
  /\ LET c == call("buy", solAmount, <<>>)
     IN  slots' = [slots EXCEPT ![s] =
           <<IF notPositive(solAmount)
             THEN c
             ELSE [c EXCEPT !.stage = "checking", !.threwAt = "none",
                            !.log = <<"getAccountInfo">>]>>]
  /\ UNCHANGED <<now, tokenBalance, network, ataExists>>
  /\ UNCHANGED <<finalizeVars, estimatorVars, clawVars>>

\* a buy that adds the create instruction whatever the lookup found
BuyCheckedAlwaysCreating(s, ok) ==
  /\ slots[s] # <<>>
  /\ slots[s][1].stage = "checking"
  /\ LET c        == slots[s][1]
         ataAddress == getAssociatedTokenAddressSync(Mint, AgentKey)
         swap     == buildSwapInstruction(Mint, AgentKey,
                                          toLamports(c.amount[1]), 0)
     IN  slots' = [slots EXCEPT ![s] =
           <<IF ~ok
             THEN [c EXCEPT !.stage = "threw", !.threwAt = "check"]
             ELSE [c EXCEPT
                     !.stage = "sending",
                     !.ataInfo = IF ataExists THEN "exists" ELSE "null",
                     !.ix = <<createAssociatedTokenAccountInstruction(
                                AgentKey, ataAddress, AgentKey, Mint),
                              swap>>]>>]
  /\ UNCHANGED <<now, tokenBalance, network, ataExists>>
  /\ UNCHANGED <<finalizeVars, estimatorVars, clawVars>>

\* buy, from the outcome of getAccountInfo to sendAndConfirm: the create
\* instruction goes in first when there is no account, the swap after it
BuyChecked(s, ok) ==
  /\ slots[s] # <<>>
  /\ slots[s][1].stage = "checking"
  /\ LET c        == slots[s][1]
         ataAddress == getAssociatedTokenAddressSync(Mint, AgentKey)
         swap     == buildSwapInstruction(Mint, AgentKey,
                                          toLamports(c.amount[1]), 0)
     IN  slots' = [slots EXCEPT ![s] =
           <<IF ~ok
             THEN [c EXCEPT !.stage = "threw", !.threwAt = "check"]
             ELSE [c EXCEPT
                     !.stage = "sending",
                     !.ataInfo = IF ataExists THEN "exists" ELSE "null",
                     !.ix = (IF ataExists
                             THEN <<>>
                             ELSE <<createAssociatedTokenAccountInstruction(
                                      AgentKey, ataAddress, AgentKey, Mint)>>)
                            \o <<swap>>]>>]
  /\ UNCHANGED <<now, tokenBalance, network, ataExists>>
  /\ UNCHANGED <<finalizeVars, estimatorVars, clawVars>>

\* requestAirdrop, to its await of connection.requestAirdrop
RequestAirdrop(s) ==
  /\ slots[s] = <<>>
  /\ LET c == call("requestAirdrop", <<>>, <<>>)
     IN  slots' = [slots EXCEPT ![s] =
           <<IF network # "devnet"
             THEN c
             ELSE [c EXCEPT !.stage = "airdropping", !.threwAt = "none",
                            !.log = <<"requestAirdrop">>]>>]
  /\ UNCHANGED <<now, tokenBalance, network, ataExists>>
  /\ UNCHANGED <<finalizeVars, estimatorVars, clawVars>>

\* requestAirdrop, from the signature to the end of confirmTransaction
AirdropConfirm(s, requested, confirmed) ==
  /\ slots[s] # <<>>
  /\ slots[s][1].stage = "airdropping"
  /\ LET c == slots[s][1]
     IN  slots' = [slots EXCEPT ![s] =
           <<IF ~requested
             THEN [c EXCEPT !.stage = "threw", !.threwAt = "airdrop"]
             ELSE [c EXCEPT
                     !.log = Append(c.log, "confirmTransaction"),
                     !.stage = IF confirmed THEN "returned" ELSE "threw",
                     !.threwAt = IF confirmed THEN "none" ELSE "confirm"]>>]
  /\ UNCHANGED <<now, tokenBalance, network, ataExists>>
  /\ UNCHANGED <<finalizeVars, estimatorVars, clawVars>>

\* getStakingInfo: the user-stake address it looks up; a failed lookup is
\* caught
GetStakingInfo(s) ==
  /\ slots[s] = <<>>
  /\ slots' = [slots EXCEPT ![s] =
       <<[call("getStakingInfo", <<>>, <<>>) EXCEPT
            !.stage = "returned", !.threwAt = "none",
            !.log = <<"getAccountInfo">>,
            !.address = <<deriveUserStakePda(Mint, AgentKey)>>]>>]
  /\ UNCHANGED <<now, tokenBalance, network, ataExists>>
  /\ UNCHANGED <<finalizeVars, estimatorVars, clawVars>>

\* deriveAllBundlePdas(mint), of which the fee vault is kept
DeriveAllBundlePdas(s) ==
  /\ slots[s] = <<>>
  /\ slots' = [slots EXCEPT ![s] =
       <<[call("deriveAllBundlePdas", <<>>, <<>>) EXCEPT
            !.stage = "returned", !.threwAt = "none",
            !.address = <<deriveAllBundlePdas(Mint).feeVaultPda>>]>>]
  /\ UNCHANGED <<now, tokenBalance, network, ataExists>>
  /\ UNCHANGED <<finalizeVars, estimatorVars, clawVars>>

\* sendAndConfirm, its await of getLatestBlockhash
AgentBlockhash(s, ok) ==
  /\ slots[s] # <<>>
  /\ slots[s][1].stage = "sending"
  /\ LET c == [slots[s][1] EXCEPT
                 !.log = Append(slots[s][1].log, "getLatestBlockhash")]
     IN  slots' = [slots EXCEPT ![s] =
           <<IF ok
             THEN [c EXCEPT !.stage = "signing"]
             ELSE [c EXCEPT !.stage = "threw", !.threwAt = "blockhash"]>>]
  /\ UNCHANGED <<now, tokenBalance, network, ataExists>>
  /\ UNCHANGED <<finalizeVars, estimatorVars, clawVars>>

\* sendAndConfirm, transaction.sign and its await of sendRawTransaction
AgentSend(s, ok) ==
  /\ slots[s] # <<>>
  /\ slots[s][1].stage = "signing"
  /\ LET c == [slots[s][1] EXCEPT
                 !.log = slots[s][1].log \o <<"sign", "sendRawTransaction">>,
                 !.txs = slots[s][1].txs + 1]
     IN  slots' = [slots EXCEPT ![s] =
           <<IF ok
             THEN [c EXCEPT !.stage = "confirming"]
             ELSE [c EXCEPT !.stage = "threw", !.threwAt = "send"]>>]
  /\ UNCHANGED <<now, tokenBalance, network, ataExists>>
  /\ UNCHANGED <<finalizeVars, estimatorVars, clawVars>>

\* a confirmation that sends the transaction again when it fails
AgentConfirmResending(s, ok) ==
  /\ slots[s] # <<>>
  /\ slots[s][1].stage = "confirming"
  /\ slots[s][1].txs < 2
  /\ LET c == [slots[s][1] EXCEPT
                 !.log = Append(slots[s][1].log, "confirmTransaction")]
     IN  slots' = [slots EXCEPT ![s] =
           <<IF ok
             THEN [c EXCEPT !.stage = "returned"]
             ELSE [c EXCEPT !.stage = "signing"]>>]
  /\ UNCHANGED <<now, tokenBalance, network, ataExists>>
  /\ UNCHANGED <<finalizeVars, estimatorVars, clawVars>>

\* sendAndConfirm, its await of confirmTransaction and the return of the
\* signature
AgentConfirm(s, ok) ==
  /\ slots[s] # <<>>
  /\ slots[s][1].stage = "confirming"
  /\ LET c == [slots[s][1] EXCEPT
                 !.log = Append(slots[s][1].log, "confirmTransaction")]
     IN  slots' = [slots EXCEPT ![s] =
           <<IF ok
             THEN [c EXCEPT !.stage = "returned"]
             ELSE [c EXCEPT !.stage = "threw", !.threwAt = "confirm"]>>]
  /\ UNCHANGED <<now, tokenBalance, network, ataExists>>
  /\ UNCHANGED <<finalizeVars, estimatorVars, clawVars>>

\* the caller has the call's outcome
AgentReturn(s) ==
  /\ slots[s] # <<>>
  /\ slots[s][1].stage \in {"returned", "threw"}
  /\ slots' = [slots EXCEPT ![s] = <<>>]
  /\ UNCHANGED <<now, tokenBalance, network, ataExists>>
  /\ UNCHANGED <<finalizeVars, estimatorVars, clawVars>>

\* a millisecond passes
Tick ==
  /\ now < MaxClock
  /\ now' = now + 1
  /\ UNCHANGED <<tokenBalance, network, ataExists, slots>>
  /\ UNCHANGED <<finalizeVars, estimatorVars, clawVars>>

\* tokens arrive in or leave the wallet's token account
TokenBalanceChanges(b) ==
  /\ b # tokenBalance
  /\ tokenBalance' = b
  /\ UNCHANGED <<now, network, ataExists, slots>>
  /\ UNCHANGED <<finalizeVars, estimatorVars, clawVars>>

\* the wallet's associated token account is created, by a confirmed buy or
\* by anyone, or closed
AtaChanges ==
  /\ ataExists' = ~ataExists
  /\ UNCHANGED <<now, tokenBalance, network, slots>>
  /\ UNCHANGED <<finalizeVars, estimatorVars, clawVars>>

\* new BundlyAgent({ wallet, network })
InitAgent ==
  /\ escrowLamports = Zero
  /\ FinalizeIdle
  /\ EstimatorIdle
  /\ now = 0
  /\ tokenBalance = 0
  /\ network \in Networks
  /\ ataExists = FALSE
  /\ slots = [s \in Slots |-> <<>>]
  /\ ClawConstructed

NextAgent ==
  \/ \E s \in Slots, amount \in AmountOptions : Stake(s, amount)
  \/ \E s \in Slots : PrepareUnstake(s)
  \/ \E s \in Slots, amount \in AmountOptions : ExecuteUnstake(s, amount)
  \/ \E s \in Slots : WithdrawUnstaked(s)
  \/ \E s \in Slots : ClaimRewards(s)
  \/ \E s \in Slots, amount \in AmountOptions, readOk \in BOOLEAN :
       PresaleExit(s, amount, readOk)
  \/ \E s \in Slots, nonce \in SeedOptions, valid \in BOOLEAN :
       CreateBundle(s, nonce, valid)
  \/ \E s \in Slots, idSeed \in SeedOptions, valid \in BOOLEAN :
       CreateOrder(s, idSeed, valid)
  \/ \E s \in Slots, solAmount \in AmountOptions : Buy(s, solAmount)
  \/ \E s \in Slots, ok \in BOOLEAN : BuyChecked(s, ok)
  \/ \E s \in Slots : RequestAirdrop(s)
  \/ \E s \in Slots, requested, confirmed \in BOOLEAN :
       AirdropConfirm(s, requested, confirmed)
  \/ \E s \in Slots : GetStakingInfo(s)
  \/ \E s \in Slots : DeriveAllBundlePdas(s)
  \/ \E s \in Slots, ok \in BOOLEAN : AgentBlockhash(s, ok)
  \/ \E s \in Slots, ok \in BOOLEAN : AgentSend(s, ok)
  \/ \E s \in Slots, ok \in BOOLEAN : AgentConfirm(s, ok)
  \/ \E s \in Slots : AgentReturn(s)
  \/ Tick
  \/ \E b \in TokenBalances : TokenBalanceChanges(b)
  \/ AtaChanges

SpecAgent == InitAgent /\ [][NextAgent]_vars

\* C17: a staking call with valid input (a positive amount where one is
\* required) throws neither in its validation nor in its builder, so that
\* it reaches the transaction send, and it sends one transaction.
C17_StakingReachesSend ==
  \A s \in Slots :
    ( /\ slots[s] # <<>>
      /\ slots[s][1].name \in {"stake", "prepareUnstake", "executeUnstake",
                               "withdrawUnstaked", "claimRewards"}
      /\ slots[s][1].name \in {"stake", "executeUnstake"}
           => ~notPositive(slots[s][1].amount) )
    => /\ slots[s][1].threwAt \notin {"validation", "build"}
       /\ slots[s][1].stage \in {"confirming", "returned"}
            => slots[s][1].txs = 1

\* C18: two createBundle calls in flight together that both left out nonce,
\* and two createOrder calls that both left out idSeed, derived different
\* mint, respectively order, addresses.
C18_DefaultNoncesUnique ==
  \A s, t \in Slots :
    ( /\ s # t
      /\ slots[s] # <<>>
      /\ slots[t] # <<>>
      /\ slots[s][1].name \in {"createBundle", "createOrder"}
      /\ slots[s][1].name = slots[t][1].name
      /\ slots[s][1].seed = <<>>
      /\ slots[t][1].seed = <<>>
      /\ slots[s][1].address # <<>>
      /\ slots[t][1].address # <<>> )
    => slots[s][1].address # slots[t][1].address

\* C19: presaleExit took the wallet's balance exactly when options.amount
\* was left out, and for a supplied amount a it asks for floor(a * 10^6)
\* base units.
C19_PresaleExitAmount ==
  \A s \in Slots :
    ( /\ slots[s] # <<>>
      /\ slots[s][1].name = "presaleExit"
      /\ slots[s][1].ix # <<>> )
    => /\ slots[s][1].usedBalance <=> (slots[s][1].amount = <<>>)
       /\ slots[s][1].amount # <<>>
            => slots[s][1].ix[1].args
                 = <<toBaseUnits(slots[s][1].amount[1])>>

\* ------------------------------------------------------------------------
\* ClawClient
\* ------------------------------------------------------------------------
\* what apiKey can hold: the constructor's null, the undefined of a
\* response without api_key, and the strings given to withApiKey or sent by
\* the server
Keys == {"key1", "key2"}
ResponseKeys == Keys \cup {"undefined"}
SuppliedKeys == Keys \cup {"", "undefined", "null"}
truthy(key) == key \notin {"null", "undefined", ""}

\* how a fetch can end: it rejects, the response is not ok, or it is ok
Fetches == {"rejects", "notOk", "ok"}

\* headers that are made whatever apiKey holds
authHeadersUnchecked(key) ==
  [threw |-> FALSE, bearer |-> key]

\* _authHeaders
authHeaders(key) ==
  IF ~truthy(key)
  THEN [threw |-> TRUE, bearer |-> ""]
  ELSE [threw |-> FALSE, bearer |-> key]

\* a call, its error or "returned", and the request it issued if any
called(name, outcome, request) ==
  <<[name |-> name, outcome |-> outcome, request |-> request]>>

\* fetch(url, { headers }) and what follows it: nothing is sent to a URL
\* that is not absolute
fetched(name, url, headers, net) ==
  IF ~baseUrlOk
  THEN called(name, "fetch rejected", <<>>)
  ELSE called(name,
              CASE net = "rejects" -> "fetch rejected"
                [] net = "notOk"   -> "failed"
                [] net = "ok"      -> "returned",
              <<[url |-> url, bearer |-> headers.bearer]>>)

RegisterAgent(net, key) ==
  /\ clawCall' = fetched("registerAgent", "/api/v1/agents/register",
                         [bearer |-> ""], net)
  /\ IF baseUrlOk /\ net = "ok"
     THEN /\ apiKey' = key
          /\ keySetBy' = keySetBy \cup {"registerAgent"}
     ELSE UNCHANGED <<apiKey, keySetBy>>
  /\ UNCHANGED baseUrlOk
  /\ UNCHANGED <<finalizeVars, estimatorVars, agentVars>>

LoginAgent(net, key) ==
  /\ clawCall' = fetched("loginAgent", "/api/v1/agents/login",
                         [bearer |-> ""], net)
  /\ IF baseUrlOk /\ net = "ok"
     THEN /\ apiKey' = key
          /\ keySetBy' = keySetBy \cup {"loginAgent"}
     ELSE UNCHANGED <<apiKey, keySetBy>>
  /\ UNCHANGED baseUrlOk
  /\ UNCHANGED <<finalizeVars, estimatorVars, agentVars>>

WithApiKey(key) ==
  /\ apiKey' = key
  /\ keySetBy' = keySetBy \cup {"withApiKey"}
  /\ clawCall' = called("withApiKey", "returned", <<>>)
  /\ UNCHANGED baseUrlOk
  /\ UNCHANGED <<finalizeVars, estimatorVars, agentVars>>

GetMe(net) ==
  /\ LET headers == authHeaders(apiKey)
     IN  clawCall' = IF headers.threw
                     THEN called("getMe", "Missing apiKey", <<>>)
                     ELSE fetched("getMe", "/api/v1/agents/me", headers, net)
  /\ UNCHANGED <<apiKey, keySetBy, baseUrlOk>>
  /\ UNCHANGED <<finalizeVars, estimatorVars, agentVars>>

\* new URL(...) comes before the headers
ListBundles(net) ==
  /\ LET headers == authHeaders(apiKey)
     IN  clawCall' =
           IF ~baseUrlOk
           THEN called("listBundles", "Invalid URL", <<>>)
           ELSE IF headers.threw
           THEN called("listBundles", "Missing apiKey", <<>>)
           ELSE fetched("listBundles", "/api/v1/bundles", headers, net)
  /\ UNCHANGED <<apiKey, keySetBy, baseUrlOk>>
  /\ UNCHANGED <<finalizeVars, estimatorVars, agentVars>>

\* the two argument checks come before the headers
CreatePost(hasBundleMint, contentIsString, net) ==
  /\ LET headers == authHeaders(apiKey)
     IN  clawCall' =
           IF ~hasBundleMint
           THEN called("createPost", "bundleMint is required", <<>>)
           ELSE IF ~contentIsString
           THEN called("createPost", "content must be a string", <<>>)
           ELSE IF headers.threw
           THEN called("createPost", "Missing apiKey", <<>>)
           ELSE fetched("createPost", "/api/v1/posts/", headers, net)
  /\ UNCHANGED <<apiKey, keySetBy, baseUrlOk>>
  /\ UNCHANGED <<finalizeVars, estimatorVars, agentVars>>

\* new ClawClient({ baseUrl, wallet }), baseUrl any string
InitClaw ==
  /\ escrowLamports = Zero
  /\ FinalizeIdle
  /\ EstimatorIdle
  /\ AgentIdle
  /\ apiKey = "null"
  /\ keySetBy = {}
  /\ baseUrlOk \in BOOLEAN
  /\ clawCall = <<>>

NextClaw ==
  \/ \E net \in Fetches, key \in ResponseKeys : RegisterAgent(net, key)
  \/ \E net \in Fetches, key \in ResponseKeys : LoginAgent(net, key)
  \/ \E key \in SuppliedKeys : WithApiKey(key)
  \/ \E net \in Fetches : GetMe(net)
  \/ \E net \in Fetches : ListBundles(net)
  \/ \E m, c \in BOOLEAN, net \in Fetches : CreatePost(m, c, net)

SpecClaw == InitClaw /\ [][NextClaw]_vars

Authenticated == {"getMe", "listBundles", "createPost"}

\* C20 as stated: an authenticated call issues a request only when apiKey
\* has been set by a prior registerAgent, loginAgent or withApiKey, and in
\* every other state it throws 'Missing apiKey' and sends no request.
C20_AuthAsStated ==
  (clawCall # <<>> /\ clawCall[1].name \in Authenticated) =>
    /\ clawCall[1].request # <<>> => keySetBy # {}
    /\ keySetBy = {} => /\ clawCall[1].outcome = "Missing apiKey"
                        /\ clawCall[1].request = <<>>

\* C20, amended: an authenticated call issues a request only when apiKey
\* holds a non-empty string set by a prior registerAgent, loginAgent or
\* withApiKey, and the request carries that key; otherwise it sends no
\* request, and it throws 'Missing apiKey' unless createPost's own argument
\* check or listBundles' URL construction throws first.
C20_AuthRequired ==
  (clawCall # <<>> /\ clawCall[1].name \in Authenticated) =>
    /\ clawCall[1].request # <<>> =>
         /\ truthy(apiKey)
         /\ keySetBy # {}
         /\ clawCall[1].request[1].bearer = apiKey
    /\ ~truthy(apiKey) =>
         /\ clawCall[1].request = <<>>
         /\ clawCall[1].outcome \in
              CASE clawCall[1].name = "getMe" -> {"Missing apiKey"}
                [] clawCall[1].name = "listBundles" ->
                     {IF baseUrlOk THEN "Missing apiKey" ELSE "Invalid URL"}
                [] clawCall[1].name = "createPost" ->
                     {"Missing apiKey", "bundleMint is required",
                      "content must be a string"}

\* createPost with good arguments on a client that was never given a key
C20_Witness ==
  /\ keySetBy = {}
  /\ apiKey = "null"
  /\ clawCall = called("createPost", "Missing apiKey", <<>>)

\* ------------------------------------------------------------------------
\* The returned value across the whole range of balances
\* ------------------------------------------------------------------------
\* the value the three pieces give for each balance of the model: zero up
\* to the fixed costs, the constant cap where tokensExpected exceeds the
\* initial real reserves, floor(tokensExpected * 90 / 100) in between
pieces ==
  {<<b, IF lte(b, BN(<<1450, 0>>)) THEN Zero
        ELSE IF gt(naiveTokensExpected(b), BN(<<793, 1000, 0, 0>>))
        THEN BN(<<713, 7900, 0, 0>>)
        ELSE ninetyPercent(naiveTokensExpected(b))>> : b \in Balances}

pieceOf(b) == (CHOOSE e \in pieces : e[1] = b)[2]

\* C26: the returned value is the piecewise value of the balance read, and
\* of two invocations the one that read the larger balance was not returned
\* the smaller value, the clamped region included.
C26_ReturnMonotone ==
  \A c, d \in Callers :
    ( /\ inv[c] # <<>>
      /\ inv[d] # <<>>
      /\ ~inv[c][1].read.rejected
      /\ ~inv[d][1].read.rejected )
    => /\ inv[c][1].result.ret = pieceOf(inv[c][1].read.balance)
       /\ lte(inv[c][1].read.balance, inv[d][1].read.balance)
            => lte(inv[c][1].result.ret, inv[d][1].result.ret)

\* the last balance of the formula and the first clamped one
C26_Witness ==
  /\ inv["a"] # <<>>
  /\ inv["b"] # <<>>
  /\ inv["a"][1].read = [rejected |-> FALSE,
                         balance  |-> BN(<<850, 1985, 9056>>)]
  /\ inv["b"][1].read = [rejected |-> FALSE,
                         balance  |-> BN(<<850, 1985, 9057>>)]
  /\ inv["a"][1].result.ret = BN(<<713, 7899, 9999, 8235>>)
  /\ inv["b"][1].result.ret = BN(<<713, 7900, 0, 0>>)
  /\ inv["b"][1].result.warnCapped

\* C27: a clamped estimate (tokensExpected above initialRealTokenReserves)
\* has spendable >= 85_000_000_000 and carries no not-graduating warning.
C27_ClampImpliesGraduation ==
  (Estimated /\ gt(est[1].tokensOut, INITIAL_REAL_TOKEN_RESERVES)) =>
    /\ est[1].warnCapped
    /\ gte(est[1].SOL_TO_SPEND, BN(<<850, 0, 0>>))
    /\ ~est[1].warnGraduation

\* the first clamped balance: spendable is 85_005_359_057
C27_Witness ==
  /\ Estimated
  /\ escrowBalance[1].balance = BN(<<850, 1985, 9057>>)
  /\ est[1].SOL_TO_SPEND = BN(<<850, 535, 9057>>)
  /\ est[1].tokensOut = BN(<<793, 1000, 0, 473>>)
  /\ est[1].warnCapped
  /\ ~est[1].warnGraduation

\* ------------------------------------------------------------------------
\* The key after a login
\* ------------------------------------------------------------------------
\* C21: the authenticated call that follows a loginAgent or registerAgent
\* that resolved does not fail with 'Missing apiKey'.
C21_KeyAfterLogin ==
  [][ ( /\ clawCall # <<>>
        /\ clawCall[1].name \in {"loginAgent", "registerAgent"}
        /\ clawCall[1].outcome = "returned"
        /\ clawCall' # clawCall
        /\ clawCall'[1].name \in Authenticated )
      => clawCall'[1].outcome # "Missing apiKey" ]_vars

\* ------------------------------------------------------------------------
\* The finalize builder called with a minTokensOut of the caller's
\* ------------------------------------------------------------------------
\* new BN(n) for a JavaScript number n >= 0: its limbs, least significant
\* first
RECURSIVE natToMag(_)
natToMag(n) == IF n = 0 THEN <<>> ELSE <<n % Base>> \o natToMag(n \div Base)

toBN(n) == mkBN(FALSE, natToMag(n))

\* the number a magnitude stands for
RECURSIVE magToNat(_)
magToNat(m) == IF m = <<>> THEN 0 ELSE Head(m) + Base * magToNat(Tail(m))

\* the minTokensOut property of the builder's argument: left out, null, or
\* a number
MinTokensArgs ==
  {[kind |-> "omitted", value |-> 0], [kind |-> "null", value |-> 0]}
    \cup {[kind |-> "number", value |-> n] : n \in {0, 1, 32190, 2000000000}}

\* a builder that tests the value for falsiness, in place of === null
BuildFinalizeFalsy(arg, rejected) ==
  /\ builderArgs = <<>>
  /\ builderArgs' = <<arg>>
  /\ IF arg.kind \in {"omitted", "null"} \/ arg.value = 0
     THEN LET read == [rejected |-> rejected, balance |-> escrowLamports]
              r    == calculateMinTokensForGraduation(read)
          IN  /\ escrowBalance' = <<read>>
              /\ est' = <<r>>
              /\ minTokensBN' = <<r.ret>>
     ELSE /\ minTokensBN' = <<toBN(arg.value)>>
          /\ UNCHANGED <<escrowBalance, est>>
  /\ UNCHANGED <<escrowLamports, pc, thrownBy, options, tokenUri, uploaded, tx>>
  /\ UNCHANGED <<estimatorVars, agentVars, clawVars>>

\* buildFinalizePumpfunInstruction({ ..., minTokensOut }) called by a user
\* of the library: the default turns a left-out value into null, null goes
\* to the estimator, anything else to new BN(minTokensOut)
BuildFinalize(arg, rejected) ==
  /\ builderArgs = <<>>
  /\ builderArgs' = <<arg>>
  /\ IF arg.kind \in {"omitted", "null"}
     THEN LET read == [rejected |-> rejected, balance |-> escrowLamports]
              r    == calculateMinTokensForGraduation(read)
          IN  /\ escrowBalance' = <<read>>
              /\ est' = <<r>>
              /\ minTokensBN' = <<r.ret>>
     ELSE /\ minTokensBN' = <<toBN(arg.value)>>
          /\ UNCHANGED <<escrowBalance, est>>
  /\ UNCHANGED <<escrowLamports, pc, thrownBy, options, tokenUri, uploaded, tx>>
  /\ UNCHANGED <<estimatorVars, agentVars, clawVars>>

\* the builder has returned its instruction and its locals are gone
BuildReturned ==
  /\ pc = "idle"
  /\ builderArgs # <<>>
  /\ builderArgs' = <<>>
  /\ escrowBalance' = <<>>
  /\ est' = <<>>
  /\ minTokensBN' = <<>>
  /\ UNCHANGED <<escrowLamports, pc, thrownBy, options, tokenUri, uploaded, tx>>
  /\ UNCHANGED <<estimatorVars, agentVars, clawVars>>

InitBuilder ==
  /\ escrowLamports \in Balances
  /\ FinalizeIdle
  /\ EstimatorIdle
  /\ AgentIdle
  /\ ClawConstructed

NextBuilder ==
  \/ \E arg \in MinTokensArgs, rejected \in BOOLEAN :
       BuildFinalize(arg, rejected)
  \/ BuildReturned
  \/ \E b \in Balances : EscrowChanges(b)

SpecBuilder == InitBuilder /\ [][NextBuilder]_vars

\* C25: the builder reads the escrow balance and runs the estimator exactly
\* when minTokensOut is null or left out; for a supplied number, 0 included,
\* it reads nothing and the value it gives to the instruction is that
\* number.
C25_EstimateOnlyWhenNull ==
  builderArgs # <<>> =>
    /\ escrowBalance # <<>> <=> builderArgs[1].kind \in {"omitted", "null"}
    /\ est # <<>> <=> builderArgs[1].kind \in {"omitted", "null"}
    /\ builderArgs[1].kind = "number" =>
         /\ minTokensBN # <<>>
         /\ ~minTokensBN[1].neg
         /\ magToNat(minTokensBN[1].mag) = builderArgs[1].value

\* minTokensOut: 0 on an escrow that would give a positive estimate
C25_Witness ==
  /\ builderArgs = <<[kind |-> "number", value |-> 0]>>
  /\ escrowLamports = BN(<<1000, 0, 0>>)
  /\ escrowBalance = <<>>
  /\ est = <<>>
  /\ minTokensBN = <<Zero>>

\* ------------------------------------------------------------------------
\* sendAndConfirm, validation, the buy transaction, derived addresses
\* ------------------------------------------------------------------------
SendOrder ==
  <<"getLatestBlockhash", "sign", "sendRawTransaction", "confirmTransaction">>

isSendStep(e) == e \in {SendOrder[i] : i \in DOMAIN SendOrder}

isSend(e) == e = "sendRawTransaction"

\* the calls that go through sendAndConfirm
ViaSendAndConfirm ==
  {"stake", "prepareUnstake", "executeUnstake", "withdrawUnstaked",
   "claimRewards", "presaleExit", "createBundle", "createOrder", "buy"}

\* C22: the steps sendAndConfirm has taken for a call are, in this order,
\* the blockhash fetch, the signing, one sendRawTransaction and
\* confirmTransaction; the call has returned only with all four done; a
\* failed send or confirmation ends the call with that error, the
\* transaction sent once.
C22_SendAndConfirmOrder ==
  \A s \in Slots :
    (slots[s] # <<>> /\ slots[s][1].name \in ViaSendAndConfirm) =>
      LET c     == slots[s][1]
          steps == SelectSeq(c.log, isSendStep)
      IN  /\ Len(steps) <= Len(SendOrder)
          /\ steps = SubSeq(SendOrder, 1, Len(steps))
          /\ Len(SelectSeq(c.log, isSend)) = c.txs
          /\ c.txs <= 1
          /\ c.stage = "returned" => steps = SendOrder
          /\ c.threwAt = "send" =>
               (c.stage = "threw" /\ steps = SubSeq(SendOrder, 1, 3))
          /\ c.threwAt = "confirm" =>
               (c.stage = "threw" /\ steps = SendOrder)

\* a stake whose confirmation failed: sent once, the call threw
C22_Witness ==
  /\ slots["first"] # <<>>
  /\ slots["first"][1].name = "stake"
  /\ slots["first"][1].stage = "threw"
  /\ slots["first"][1].threwAt = "confirm"
  /\ slots["first"][1].log = SendOrder
  /\ slots["first"][1].txs = 1

\* the input the call's validation is to refuse
refused(c) ==
  \/ /\ c.name \in {"buy", "stake", "executeUnstake"}
     /\ (c.amount = <<>> \/ c.amount[1] <= 0)
  \/ /\ c.name \in {"createBundle", "createOrder"}
     /\ ~c.complete
  \/ /\ c.name = "requestAirdrop"
     /\ network # "devnet"

\* C23: a call with an input its validation refuses has thrown without an
\* RPC call, an instruction or a transaction, and no call that threw in its
\* validation has issued any.
C23_ValidationFirst ==
  \A s \in Slots :
    slots[s] # <<>> =>
      /\ refused(slots[s][1]) =>
           /\ slots[s][1].stage = "threw"
           /\ slots[s][1].threwAt = "validation"
      /\ slots[s][1].threwAt = "validation" =>
           /\ slots[s][1].log = <<>>
           /\ slots[s][1].ix = <<>>
           /\ slots[s][1].txs = 0

\* buy with solAmount 0 next to an airdrop asked for off devnet
C23_Witness ==
  /\ network = "mainnet-beta"
  /\ slots["first"] # <<>>
  /\ slots["first"][1].name = "buy"
  /\ slots["first"][1].amount = <<0>>
  /\ slots["first"][1].threwAt = "validation"
  /\ slots["first"][1].log = <<>>
  /\ slots["second"] # <<>>
  /\ slots["second"][1].name = "requestAirdrop"
  /\ slots["second"][1].threwAt = "validation"
  /\ slots["second"][1].log = <<>>

isSwap(ix) == ix.method = "swap"
isCreateAta(ix) == ix.method = "createAssociatedTokenAccount"

\* C24: the transaction of a buy holds one swap instruction, and a
\* create-associated-token-account instruction exactly when the lookup
\* found no account, in which case it comes before the swap.
C24_BuyTransaction ==
  \A s \in Slots :
    ( /\ slots[s] # <<>>
      /\ slots[s][1].name = "buy"
      /\ slots[s][1].ix # <<>> )
    => LET c == slots[s][1]
       IN  /\ Len(SelectSeq(c.ix, isSwap)) = 1
           /\ c.ataInfo \in {"null", "exists"}
           /\ (SelectSeq(c.ix, isCreateAta) # <<>>) <=> (c.ataInfo = "null")
           /\ c.ataInfo = "null" =>
                /\ Len(c.ix) = 2
                /\ isCreateAta(c.ix[1])
                /\ isSwap(c.ix[2])
           /\ c.ataInfo = "exists" => Len(c.ix) = 1

\* two buys in flight: one looked while there was no account, the other
\* after it had been created
C24_Witness ==
  /\ slots["first"] # <<>>
  /\ slots["first"][1].name = "buy"
  /\ slots["first"][1].ataInfo = "null"
  /\ Len(slots["first"][1].ix) = 2
  /\ slots["second"] # <<>>
  /\ slots["second"][1].name = "buy"
  /\ slots["second"][1].ataInfo = "exists"
  /\ Len(slots["second"][1].ix) = 1

\* C28: the user-stake address getStakingInfo looks up is the one stake
\* passes to deposit_stake, and the fee vault of deriveAllBundlePdas is the
\* one the builders pass for the bundle of that mint.
C28_AddressesAgree ==
  \A s, t \in Slots :
    (slots[s] # <<>> /\ slots[t] # <<>> /\ slots[t][1].ix # <<>>) =>
      /\ (slots[s][1].name = "getStakingInfo" /\ slots[t][1].name = "stake")
           => slots[s][1].address[1] = slots[t][1].ix[1].accounts.userStake
      /\ ( /\ slots[s][1].name = "deriveAllBundlePdas"
           /\ slots[t][1].name \in {"stake", "claimRewards"} )
           => slots[s][1].address[1] = slots[t][1].ix[1].accounts.feeVault

====
